---- MODULE Spec2Model ----
(***************************************************************************)
(* Model of the ADWBI ETL runner (include/etl_runner.py) as it is driven   *)
(* by the Airflow DAG (dags/adwbi_etl_dag.py): several run_etl_job         *)
(* invocations execute concurrently on different workers and share only    *)
(* the warehouse: the master table, the audit table and the run-id         *)
(* sequence.  Every database round trip of a run is one atomic step.       *)
(***************************************************************************)
EXTENDS Integers, Sequences, FiniteSets, TLC

(***************************************************************************)
(* Values                                                                  *)
(***************************************************************************)

\* SQL NULL / Python None, and a present value.
NULL == [isnull |-> TRUE]
Val(x) == [isnull |-> FALSE, v |-> x]

\* A text is a sequence of tokens; a token is a tuple of strings.
WS == <<" ">>
SEMI == <<";">>
BATCH_TS_TOKEN == <<"$BATCH_TS">>

\* The workers that each make one run_etl_job invocation.
Runs == {"w1", "w2"}

\* Bound on the number of concurrent edits of the master table.
MaxMasterEdits == 1

\* The job whose rows are edited while runs are under way.
EditedJob == << <<"JOB_01">> >>

\* Wall-clock values datetime.now(timezone.utc).replace(microsecond=0) can give.
Earlier == [date |-> "2026-01-01", time |-> "00:00:00+00:00"]
Later == [date |-> "2026-01-02", time |-> "06:30:00+00:00"]
Timestamps == {Earlier, Later}

\* Job codes: texts of one token.
JOB_01 == << <<"JOB_01">> >>
JOB_02 == << <<"JOB_02">> >>
JOB_03 == << <<"JOB_03">> >>

JobCodes == {JOB_01, JOB_02, JOB_03}

\* job_code arguments: job codes of the DAG, one padded with blanks, and a
\* blank one.
JobInputs == {JOB_01, << WS >> \o JOB_02 \o << WS >>, JOB_03, << WS >>}

\* The rows of MASTER_TABLE, per JOB_CODE, in the order the table stores them
\* (JOB_02's are not stored in STEP_NUMBER order).
Step(job, n, desc, logic) ==
  [project_name |-> "ADWBI", job_code |-> job, job_name |-> <<"name of">> \o job,
   step_number |-> n, step_desc |-> desc, etl_logic |-> logic,
   src |-> NULL, tgt |-> Val(<<"MS_ADWBI", "DW", desc>>)]

MasterRows ==
  [j \in JobCodes |->
     CASE j = JOB_01 ->
            << Step(j, 1, "load", Val(<< <<"INSERT_A">>, BATCH_TS_TOKEN, SEMI,
                                     <<"UPDATE_B">>, SEMI,
                                     <<"DELETE_C">>, BATCH_TS_TOKEN >>)),
               Step(j, 2, "noop", NULL) >>
       [] j = JOB_02 ->
            << Step(j, 20, "merge", Val(<< WS, <<"MERGE_D">>, SEMI,
                                        <<"INSERT_E">>, BATCH_TS_TOKEN, WS >>)),
               Step(j, 10, "stage", Val(<< WS >>)) >>
       [] OTHER -> << >> ]

(***************************************************************************)
(* Text helpers                                                            *)
(***************************************************************************)

\* str.lstrip() / str.rstrip() / str.strip() on a token sequence.
RECURSIVE LStrip(_)
LStrip(t) == IF t # << >> /\ Head(t) = WS THEN LStrip(Tail(t)) ELSE t

RECURSIVE RStrip(_)
RStrip(t) == IF t # << >> /\ t[Len(t)] = WS THEN RStrip(SubSeq(t, 1, Len(t) - 1)) ELSE t

Strip(t) == RStrip(LStrip(t))

\* str.replace(old, new): every occurrence of the token old becomes new.
Replace(t, old, new) == [k \in DOMAIN t |-> IF t[k] = old THEN new ELSE t[k]]

\* datetime.isoformat(sep): date, separator, time.
IsoFormat(ts, sep) == <<ts.date, sep, ts.time>>

\* f"'{batch_ts_literal}'": the quoted literal that replaces $BATCH_TS.
QuotedLiteral(ts) == <<"'">> \o IsoFormat(ts, " ") \o <<"'">>

\* The statements of a SQL text: the driver splits on ';' and drops blank ones.
RECURSIVE SplitStatements(_, _)
SplitStatements(t, acc) ==
  IF t = << >>
    THEN (IF Strip(acc) = << >> THEN << >> ELSE << Strip(acc) >>)
    ELSE IF Head(t) = SEMI
           THEN (IF Strip(acc) = << >> THEN << >> ELSE << Strip(acc) >>)
                \o SplitStatements(Tail(t), << >>)
           ELSE SplitStatements(Tail(t), Append(acc, Head(t)))

Statements(t) == SplitStatements(t, << >>)

(***************************************************************************)
(* Exceptions: a type and a message; str(e) is the message.                *)
(***************************************************************************)
Exc(type, msg) == [type |-> type, msg |-> msg]

StrOf(e) == e.msg

\* The error the warehouse reports for statement number k of a block.
SqlError(k, stmt) == Exc("ProgrammingError", <<"SQL error in statement", k, stmt>>)

\* cursor.execute() of an older connector rejecting the keyword argument.
CapabilityMismatch ==
  Exc("TypeError", <<"execute() got an unexpected keyword argument", "multi_statement_count">>)

\* A failed round trip that is not a statement of a step.
QueryError(what) == Exc("DatabaseError", <<"query failed", what>>)

\* run_etl_job's own errors.
JobCodeRequired == Exc("ValueError", <<"job_code is required">>)

MissingAccount == Exc("ValueError", <<"missing Snowflake 'account'">>)

NoStepsFound(job) == Exc("RuntimeError", <<"No steps found for JOB_CODE", job>>)

\* f"JOB FAILED | JOB={job_code} | RUN_ID={run_id} | STEP={step.step_number} "
\* f"| DESC={step.step_desc} | ERROR={err}"
JobFailed(job, rid, step, e) ==
  Exc("RuntimeError", <<"JOB FAILED", job, rid, step.step_number, step.step_desc, e>>)

\* f"SUCCESS: JOB_CODE={job_code}, RUN_ID={run_id}, BATCH_TS={batch_ts.isoformat()}"
SuccessString(job, rid, ts) ==
  [head |-> "SUCCESS", job_code |-> job, run_id |-> rid, batch_ts |-> IsoFormat(ts, "T")]

Returned(v) == [kind |-> "return", value |-> v]

Raised(e) == [kind |-> "raise", exc |-> e]

NoResult == [kind |-> "none"]

(***************************************************************************)
(* The connector: what the two ways of submitting a block do.              *)
(***************************************************************************)

\* One statement reaching the warehouse.
Submitted(k, stmt, path, ok) == [stmt |-> k, text |-> stmt, path |-> path, ok |-> ok]

\* The warehouse runs the statements in order and stops at the first that
\* fails; failAt = 0 (or beyond the last statement): none fails.
RunStatements(stmts, failAt, path) ==
  LET n    == Len(stmts)
      last == IF failAt \in 1..n THEN failAt ELSE n
  IN  [submitted |-> [k \in 1..last |-> Submitted(k, stmts[k], path, k # failAt)],
       raised    |-> IF failAt \in 1..n THEN Val(SqlError(failAt, stmts[failAt])) ELSE NULL]

\* cur.execute(sql_text, multi_statement_count=0)
CursorExecuteMulti(sql_text, supported, failAt) ==
  IF supported
    THEN RunStatements(Statements(sql_text), failAt, "native")
    ELSE [submitted |-> << >>, raised |-> Val(CapabilityMismatch)]

\* conn.execute_string(sql_text)
ConnExecuteString(sql_text, failAt) ==
  RunStatements(Statements(sql_text), failAt, "execute_string")

\* A variant that catches every exception (except Exception).
CaughtAnyException(e) == TRUE

\* except TypeError
CaughtByFallback(e) == e.type = "TypeError"

\* One call of the connector made by _execute_sql_block, with the exception
\* it raised (NULL when it returned).
CallMade(path, raised) ==
  [stmt |-> 0, text |-> << >>, path |-> path, ok |-> raised = NULL, exc |-> raised]

\* A variant that goes to conn.execute_string without trying cur.execute.
ExecuteSqlBlockStringOnly(sql_text, supported, failNative, failFallback) ==
  LET text   == Strip(sql_text)
      fallbk == ConnExecuteString(text, failFallback)
  IN  IF text = << >>
        THEN [submitted |-> << >>, raised |-> NULL, log |-> << >>]
        ELSE [submitted |-> fallbk.submitted, raised |-> fallbk.raised,
              log |-> << CallMade("execute_string", fallbk.raised) >> \o fallbk.submitted]

\* A variant whose fallback also follows a native call that returned.
ExecuteSqlBlockTwice(sql_text, supported, failNative, failFallback) ==
  LET text   == Strip(sql_text)
      native == CursorExecuteMulti(text, supported, failNative)
      fallbk == ConnExecuteString(text, failFallback)
      nlog   == << CallMade("native", native.raised) >> \o native.submitted
      flog   == << CallMade("execute_string", fallbk.raised) >> \o fallbk.submitted
  IN  IF text = << >>
        THEN [submitted |-> << >>, raised |-> NULL, log |-> << >>]
        ELSE IF native.raised = NULL \/ CaughtByFallback(native.raised.v)
               THEN [submitted |-> native.submitted \o fallbk.submitted,
                     raised    |-> fallbk.raised,
                     log       |-> nlog \o flog]
               ELSE [submitted |-> native.submitted, raised |-> native.raised,
                     log |-> nlog]

\* _execute_sql_block(conn, cur, sql_text): the statements submitted, the
\* exception that leaves the function (NULL when it returns), and the log of
\* the connector calls and of the statements each of them submitted.
ExecuteSqlBlock(sql_text, supported, failNative, failFallback) ==
  LET text   == Strip(sql_text)
      native == CursorExecuteMulti(text, supported, failNative)
      fallbk == ConnExecuteString(text, failFallback)
      nlog   == << CallMade("native", native.raised) >> \o native.submitted
      flog   == << CallMade("execute_string", fallbk.raised) >> \o fallbk.submitted
  IN  IF text = << >>
        THEN [submitted |-> << >>, raised |-> NULL, log |-> << >>]
        ELSE IF native.raised = NULL
               THEN [submitted |-> native.submitted, raised |-> NULL, log |-> nlog]
               ELSE IF CaughtByFallback(native.raised.v)
                      THEN [submitted |-> native.submitted \o fallbk.submitted,
                            raised    |-> fallbk.raised,
                            log       |-> nlog \o flog]
                      ELSE [submitted |-> native.submitted, raised |-> native.raised,
                            log |-> nlog]

(***************************************************************************)
(* State                                                                   *)
(***************************************************************************)
VARIABLES
  master,     \* MASTER_TABLE: job code -> rows ordered by STEP_NUMBER
  masterEdits,\* number of concurrent edits of the master table so far
  audit,      \* AUDIT_TABLE: a bag of rows (row -> number of copies)
  seq,        \* RUNID_SEQ: the last value handed out
  multiOk,    \* does the installed connector accept multi_statement_count
  now,        \* the wall clock (UTC, whole seconds)
  pc,         \* where each invocation is
  job_code,   \* the job_code argument, stripped
  batch_ts,   \* the run's batch timestamp
  conn,       \* "none" | "open" | "closed"
  cur,        \* "none" | "open" | "closed"
  run_id,     \* 0 is None
  steps,      \* the rows _fetch_steps returned
  idx,        \* index into steps of the step being processed
  err,        \* str(e) inside the except block
  pending,    \* the return value or exception travelling through finally
  result,     \* what the invocation returned or raised
  trace       \* history: the database calls of each run, in order

vars == <<master, masterEdits, audit, seq, multiOk, now, pc, job_code, batch_ts, conn,
          cur, run_id, steps, idx, err, pending, result, trace>>


(***************************************************************************)
(* The audit table                                                         *)
(***************************************************************************)

\* One more copy of row in the bag tbl.
BagAdd(tbl, row) ==
  IF row \in DOMAIN tbl THEN [tbl EXCEPT ![row] = @ + 1] ELSE tbl @@ (row :> 1)

RECURSIVE Copies(_, _)
Copies(tbl, rows) ==
  IF rows = {} THEN 0
  ELSE LET row == CHOOSE x \in rows : TRUE IN tbl[row] + Copies(tbl, rows \ {row})

\* A variant whose insert never reaches the table.
AuditInsertRowLost(tbl, rid, step) == tbl

\* A variant that inserts the STARTED row twice.
AuditInsertRowTwice(tbl, rid, step) ==
  LET row == [run_id |-> rid, project_name |-> step.project_name,
              job_code |-> step.job_code, job_name |-> step.job_name,
              step_number |-> step.step_number, step_desc |-> step.step_desc,
              src |-> step.src, tgt |-> step.tgt,
              run_start_date |-> Val("CURRENT_TIMESTAMP"), run_end_date |-> NULL,
              load_status |-> "STARTED", error_message |-> NULL]
  IN  BagAdd(BagAdd(tbl, row), row)

\* _audit_insert_started: INSERT INTO AUDIT_TABLE ... 'STARTED'
AuditInsertRow(tbl, rid, step) ==
  BagAdd(tbl, [run_id |-> rid, project_name |-> step.project_name,
               job_code |-> step.job_code, job_name |-> step.job_name,
               step_number |-> step.step_number, step_desc |-> step.step_desc,
               src |-> step.src, tgt |-> step.tgt,
               run_start_date |-> Val("CURRENT_TIMESTAMP"), run_end_date |-> NULL,
               load_status |-> "STARTED", error_message |-> NULL])

\* A variant whose WHERE clause leaves out the run id.
AuditWhereNoRunId(row, rid, step) ==
  /\ row.job_code = step.job_code
  /\ row.step_number = step.step_number

\* A variant with the run id and the step number bound in the wrong order.
AuditWhereSwapped(row, rid, step) ==
  /\ row.run_id = step.step_number
  /\ row.job_code = step.job_code
  /\ row.step_number = rid

\* WHERE RUN_ID = %s AND JOB_CODE = %s AND STEP_NUMBER = %s
AuditWhere(row, rid, step) ==
  /\ row.run_id = rid
  /\ row.job_code = step.job_code
  /\ row.step_number = step.step_number

\* _audit_update: UPDATE AUDIT_TABLE SET RUN_END_DATE, LOAD_STATUS, ERROR_MESSAGE
AuditUpdateRows(tbl, rid, step, status, error_message) ==
  LET upd(row) == IF AuditWhere(row, rid, step)
                    THEN [row EXCEPT !.run_end_date = Val("CURRENT_TIMESTAMP"),
                                     !.load_status = status,
                                     !.error_message = error_message]
                    ELSE row
      after    == {upd(row) : row \in DOMAIN tbl}
  IN  [nr \in after |-> Copies(tbl, {row \in DOMAIN tbl : upd(row) = nr})]

\* The rows of a run's step, counted with their copies.
RowsOf(rid, n) == {row \in DOMAIN audit : row.run_id = rid /\ row.step_number = n}

RowCount(rid, n) == Copies(audit, RowsOf(rid, n))

(***************************************************************************)
(* History                                                                 *)
(***************************************************************************)

\* One event of a run: op is "clock" (the clock was read; n is the reading),
\* or a database call: "count", "nextval", "fetch", "insert",
\* "try" (the inner try block is entered), "call" (a connector call made by
\* _execute_sql_block), "stmt", "block" (_execute_sql_block was called) or
\* "update"; n is the count a query returned, the status an update wrote, or
\* the exception a call or a block raised.
Ev(op, step, ok, n) ==
  [op |-> op, step |-> step, stmt |-> 0, text |-> << >>, path |-> "", ok |-> ok, n |-> Val(n)]

StmtEv(step, sub) ==
  [op |-> "stmt", step |-> step, stmt |-> sub.stmt, text |-> sub.text,
   path |-> sub.path, ok |-> sub.ok, n |-> NULL]

\* An entry of _execute_sql_block's log as an event of step.
BlockEv(step, e) ==
  IF e.stmt = 0
    THEN [op |-> "call", step |-> step, stmt |-> 0, text |-> << >>, path |-> e.path,
          ok |-> e.ok, n |-> e.exc]
    ELSE StmtEv(step, e)

Log(r, events) == trace' = [trace EXCEPT ![r] = @ \o events]

(***************************************************************************)
(* Init                                                                    *)
(***************************************************************************)
Init ==
  /\ master = MasterRows
  /\ masterEdits = 0
  /\ audit = << >>
  /\ seq = 0
  /\ multiOk \in BOOLEAN
  /\ now \in Timestamps
  /\ pc = [r \in Runs |-> "idle"]
  /\ job_code = [r \in Runs |-> << >>]
  /\ batch_ts = [r \in Runs |-> CHOOSE ts \in Timestamps : TRUE]
  /\ conn = [r \in Runs |-> "none"]
  /\ cur = [r \in Runs |-> "none"]
  /\ run_id = [r \in Runs |-> 0]
  /\ steps = [r \in Runs |-> << >>]
  /\ idx = [r \in Runs |-> 0]
  /\ err = [r \in Runs |-> << >>]
  /\ pending = [r \in Runs |-> NoResult]
  /\ result = [r \in Runs |-> NoResult]
  /\ trace = [r \in Runs |-> << >>]

(***************************************************************************)
(* run_etl_job, one action per database round trip                         *)
(***************************************************************************)

\* The exception e leaves the try block: on to the finally clause.
Unwind(r, e) ==
  /\ pending' = [pending EXCEPT ![r] = Raised(e)]
  /\ pc' = [pc EXCEPT ![r] = "finally"]

\* A variant that reads the clock again at each use.
BatchTsRegenerated(r) == now

\* The local batch_ts of the invocation, assigned once at line 222.
BatchTs(r) == batch_ts[r]

\* return f"SUCCESS: ...": on to the finally clause.
ReturnSuccess(r) ==
  /\ pending' = [pending EXCEPT ![r] =
                   Returned(SuccessString(job_code[r], run_id[r], BatchTs(r)))]
  /\ pc' = [pc EXCEPT ![r] = "finally"]

\* if not job_code or not job_code.strip()
IsBlank(arg) == arg = << >> \/ Strip(arg) = << >>

\* Lines 218-226: the argument check, the batch timestamp, the connection.
Start(r) ==
  /\ pc[r] = "idle"
  /\ \E arg \in JobInputs, connected \in BOOLEAN :
       IF IsBlank(arg)
         THEN /\ result' = [result EXCEPT ![r] = Raised(JobCodeRequired)]
              /\ pc' = [pc EXCEPT ![r] = "done"]
              /\ UNCHANGED <<job_code, batch_ts, conn, cur, trace>>
         ELSE /\ job_code' = [job_code EXCEPT ![r] = Strip(arg)]
              /\ batch_ts' = [batch_ts EXCEPT ![r] = now]
              /\ Log(r, << Ev("clock", 0, TRUE, now) >>)
              /\ IF connected
                   THEN /\ conn' = [conn EXCEPT ![r] = "open"]
                        /\ cur' = [cur EXCEPT ![r] = "open"]
                        /\ pc' = [pc EXCEPT ![r] = "validate"]
                        /\ UNCHANGED result
                   ELSE /\ result' = [result EXCEPT ![r] = Raised(MissingAccount)]
                        /\ pc' = [pc EXCEPT ![r] = "done"]
                        /\ UNCHANGED <<conn, cur>>
  /\ UNCHANGED <<master, masterEdits, audit, seq, multiOk, now, run_id, steps, idx, err,
                 pending>>

\* A variant without the check of the count.
JobExistsUnchecked(steps_found) == TRUE

\* if steps_found == 0: raise
JobExists(steps_found) == steps_found # 0

\* Lines 233-239: SELECT COUNT(*) FROM MASTER_TABLE WHERE JOB_CODE = %s
Validate(r) ==
  /\ pc[r] = "validate"
  /\ \E ok \in BOOLEAN :
       LET steps_found == Len(master[job_code[r]]) IN
       IF ok
         THEN /\ Log(r, << Ev("count", 0, TRUE, steps_found) >>)
              /\ IF JobExists(steps_found)
                   THEN /\ pc' = [pc EXCEPT ![r] = "alloc"]
                        /\ UNCHANGED pending
                   ELSE Unwind(r, NoStepsFound(job_code[r]))
         ELSE /\ Log(r, << Ev("count", 0, FALSE, 0) >>)
              /\ Unwind(r, QueryError("count"))
  /\ UNCHANGED <<master, masterEdits, audit, seq, multiOk, now, job_code, batch_ts, conn,
                 cur, run_id, steps, idx, err, result>>

\* A variant that derives the run id from the audit table (MAX(RUN_ID) + 1)
\* instead of the sequence.
AllocRunIdFromAudit(r) ==
  /\ pc[r] = "alloc"
  /\ LET used == {row.run_id : row \in DOMAIN audit}
         next == IF used = {} THEN 1
                 ELSE 1 + (CHOOSE m \in used : \A u \in used : u <= m)
     IN  /\ run_id' = [run_id EXCEPT ![r] = next]
         /\ Log(r, << Ev("nextval", 0, TRUE, next) >>)
  /\ seq' = seq + 1
  /\ pc' = [pc EXCEPT ![r] = "fetch"]
  /\ UNCHANGED <<master, masterEdits, audit, multiOk, now, job_code, batch_ts, conn, cur,
                 steps, idx, err, pending, result>>

\* Line 242: SELECT RUNID_SEQ.NEXTVAL
AllocRunId(r) ==
  /\ pc[r] = "alloc"
  /\ \E ok \in BOOLEAN :
       IF ok
         THEN /\ seq' = seq + 1
              /\ run_id' = [run_id EXCEPT ![r] = seq + 1]
              /\ Log(r, << Ev("nextval", 0, TRUE, seq + 1) >>)
              /\ pc' = [pc EXCEPT ![r] = "fetch"]
              /\ UNCHANGED pending
         ELSE /\ Log(r, << Ev("nextval", 0, FALSE, 0) >>)
              /\ Unwind(r, QueryError("nextval"))
              /\ UNCHANGED <<seq, run_id>>
  /\ UNCHANGED <<master, masterEdits, audit, multiOk, now, job_code, batch_ts, conn, cur,
                 steps, idx, err, result>>

\* A variant of the query without ORDER BY: the rows come as stored.
AsStored(rows) == rows

\* ORDER BY STEP_NUMBER
RECURSIVE OrderByStepNumber(_)
OrderByStepNumber(rows) ==
  IF rows = << >> THEN << >>
  ELSE LET k    == CHOOSE k \in DOMAIN rows :
                     \A i \in DOMAIN rows : rows[k].step_number <= rows[i].step_number
           rest == [i \in 1..(Len(rows) - 1) |-> IF i < k THEN rows[i] ELSE rows[i + 1]]
       IN  << rows[k] >> \o OrderByStepNumber(rest)

\* Lines 245-248: _fetch_steps and the entry of the loop.
FetchSteps(r) ==
  /\ pc[r] = "fetch"
  /\ \E ok \in BOOLEAN :
       LET rows == OrderByStepNumber(master[job_code[r]]) IN
       IF ok
         THEN /\ steps' = [steps EXCEPT ![r] = rows]
              /\ Log(r, << Ev("fetch", 0, TRUE, Len(rows)) >>)
              /\ IF rows = << >>
                   THEN ReturnSuccess(r) /\ UNCHANGED idx
                   ELSE /\ idx' = [idx EXCEPT ![r] = 1]
                        /\ pc' = [pc EXCEPT ![r] = "insert"]
                        /\ UNCHANGED pending
         ELSE /\ Log(r, << Ev("fetch", 0, FALSE, 0) >>)
              /\ Unwind(r, QueryError("fetch"))
              /\ UNCHANGED <<steps, idx>>
  /\ UNCHANGED <<master, masterEdits, audit, seq, multiOk, now, job_code, batch_ts, conn,
                 cur, run_id, err, result>>

\* Line 249: _audit_insert_started, outside the inner try.
AuditInsertStarted(r) ==
  /\ pc[r] = "insert"
  /\ \E ok \in BOOLEAN :
       LET step == steps[r][idx[r]] IN
       IF ok
         THEN /\ audit' = AuditInsertRow(audit, run_id[r], step)
              /\ Log(r, << Ev("insert", step.step_number, TRUE, "STARTED") >>)
              /\ pc' = [pc EXCEPT ![r] = "exec"]
              /\ UNCHANGED pending
         ELSE /\ Log(r, << Ev("insert", step.step_number, FALSE, "STARTED") >>)
              /\ Unwind(r, QueryError("audit insert"))
              /\ UNCHANGED audit
  /\ UNCHANGED <<master, masterEdits, seq, multiOk, now, job_code, batch_ts, conn, cur,
                 run_id, steps, idx, err, result>>

\* if step.etl_logic and step.etl_logic.strip()
HasLogic(step) ==
  /\ step.etl_logic # NULL
  /\ step.etl_logic.v # << >>
  /\ Strip(step.etl_logic.v) # << >>

\* step.etl_logic.replace("$BATCH_TS", f"'{batch_ts_literal}'")
SqlText(step, ts) == Replace(step.etl_logic.v, BATCH_TS_TOKEN, QuotedLiteral(ts))

\* Lines 251-256 and 260-261: the step's SQL.
ExecStep(r) ==
  /\ pc[r] = "exec"
  /\ LET step == steps[r][idx[r]]
         n    == step.step_number
     IN  IF HasLogic(step)
           THEN \E failNative, failFallback \in 0..Len(Statements(SqlText(step, BatchTs(r)))) :
                  LET res == ExecuteSqlBlock(SqlText(step, BatchTs(r)), multiOk,
                                             failNative, failFallback)
                  IN  /\ Log(r, << Ev("try", n, TRUE, "try") >>
                                \o [k \in DOMAIN res.log |-> BlockEv(n, res.log[k])]
                                \o << Ev("block", n, res.raised = NULL, res.raised) >>)
                      /\ IF res.raised = NULL
                           THEN /\ pc' = [pc EXCEPT ![r] = "update_success"]
                                /\ UNCHANGED err
                           ELSE /\ err' = [err EXCEPT ![r] = StrOf(res.raised.v)]
                                /\ pc' = [pc EXCEPT ![r] = "update_failed"]
           ELSE /\ Log(r, << Ev("try", n, TRUE, "try") >>)
                /\ pc' = [pc EXCEPT ![r] = "update_success"]
                /\ UNCHANGED err
  /\ UNCHANGED <<master, masterEdits, audit, seq, multiOk, now, job_code, batch_ts, conn,
                 cur, run_id, steps, idx, pending, result>>

\* Line 258, then the next iteration or line 269.
AuditUpdateSuccess(r) ==
  /\ pc[r] = "update_success"
  /\ \E ok \in BOOLEAN :
       LET step == steps[r][idx[r]] IN
       IF ok
         THEN /\ audit' = AuditUpdateRows(audit, run_id[r], step, "SUCCESS", NULL)
              /\ Log(r, << Ev("update", step.step_number, TRUE, "SUCCESS") >>)
              /\ IF idx[r] < Len(steps[r])
                   THEN /\ idx' = [idx EXCEPT ![r] = @ + 1]
                        /\ pc' = [pc EXCEPT ![r] = "insert"]
                        /\ UNCHANGED pending
                   ELSE ReturnSuccess(r) /\ UNCHANGED idx
              /\ UNCHANGED err
         ELSE /\ Log(r, << Ev("update", step.step_number, FALSE, "SUCCESS") >>)
              /\ err' = [err EXCEPT ![r] = StrOf(QueryError("audit update"))]
              /\ pc' = [pc EXCEPT ![r] = "update_failed"]
              /\ UNCHANGED <<audit, idx, pending>>
  /\ UNCHANGED <<master, masterEdits, seq, multiOk, now, job_code, batch_ts, conn, cur,
                 run_id, steps, result>>

\* A variant of the except block that records FAILED and goes on with the
\* next step instead of raising.
AuditUpdateFailedContinue(r) ==
  /\ pc[r] = "update_failed"
  /\ LET step == steps[r][idx[r]] IN
       /\ audit' = AuditUpdateRows(audit, run_id[r], step, "FAILED", Val(err[r]))
       /\ Log(r, << Ev("update", step.step_number, TRUE, "FAILED") >>)
       /\ IF idx[r] < Len(steps[r])
            THEN /\ idx' = [idx EXCEPT ![r] = @ + 1]
                 /\ pc' = [pc EXCEPT ![r] = "insert"]
                 /\ UNCHANGED pending
            ELSE ReturnSuccess(r) /\ UNCHANGED idx
  /\ UNCHANGED <<master, masterEdits, seq, multiOk, now, job_code, batch_ts, conn, cur,
                 run_id, steps, err, result>>

\* Lines 262-267: the except block.
AuditUpdateFailed(r) ==
  /\ pc[r] = "update_failed"
  /\ \E ok \in BOOLEAN :
       LET step == steps[r][idx[r]] IN
       IF ok
         THEN /\ audit' = AuditUpdateRows(audit, run_id[r], step, "FAILED", Val(err[r]))
              /\ Log(r, << Ev("update", step.step_number, TRUE, "FAILED") >>)
              /\ Unwind(r, JobFailed(job_code[r], run_id[r], step, err[r]))
         ELSE /\ Log(r, << Ev("update", step.step_number, FALSE, "FAILED") >>)
              /\ Unwind(r, QueryError("audit update"))
              /\ UNCHANGED audit
  /\ UNCHANGED <<master, masterEdits, seq, multiOk, now, job_code, batch_ts, conn, cur,
                 run_id, steps, idx, err, result>>

\* A variant without the try around cur.close().
ReachesConnCloseUnlessRaised(curCloseRaised) == ~curCloseRaised

\* except Exception: pass, around cur.close(): is conn.close() reached when
\* cur.close() raised?
ReachesConnClose(curCloseRaised) == TRUE

\* Lines 271-279, the finally clause: cur.close() and conn.close() are called,
\* either may raise and is swallowed; then the pending return or raise takes
\* place.  "closed" stands for: close() has been called.
Finally(r) ==
  /\ pc[r] = "finally"
  /\ cur' = [cur EXCEPT ![r] = "closed"]
  /\ \E curCloseRaised \in BOOLEAN :
       IF ReachesConnClose(curCloseRaised)
         THEN /\ conn' = [conn EXCEPT ![r] = "closed"]
              /\ result' = [result EXCEPT ![r] = pending[r]]
         ELSE /\ result' = [result EXCEPT ![r] = Raised(QueryError("cursor close"))]
              /\ UNCHANGED conn
  /\ pc' = [pc EXCEPT ![r] = "done"]
  /\ UNCHANGED <<master, masterEdits, audit, seq, multiOk, now, job_code, batch_ts,
                 run_id, steps, idx, err, pending, trace>>

\* Another session edits the master table while runs are under way (the
\* engine takes no lock on it): it deletes the rows of EditedJob, or puts them
\* back.
EditMaster ==
  /\ masterEdits < MaxMasterEdits
  /\ master' = [master EXCEPT ![EditedJob] =
                  IF @ = << >> THEN MasterRows[EditedJob] ELSE << >>]
  /\ masterEdits' = masterEdits + 1
  /\ UNCHANGED <<audit, seq, multiOk, now, pc, job_code, batch_ts, conn, cur, run_id,
                 steps, idx, err, pending, result, trace>>

\* Time passes.
Tick ==
  /\ now = Earlier
  /\ now' = Later
  /\ UNCHANGED <<master, masterEdits, audit, seq, multiOk, pc, job_code, batch_ts, conn,
                 cur, run_id, steps, idx, err, pending, result, trace>>

Next ==
  \/ \E r \in Runs : Start(r)
  \/ \E r \in Runs : Validate(r)
  \/ \E r \in Runs : AllocRunId(r)
  \/ \E r \in Runs : FetchSteps(r)
  \/ \E r \in Runs : AuditInsertStarted(r)
  \/ \E r \in Runs : ExecStep(r)
  \/ \E r \in Runs : AuditUpdateSuccess(r)
  \/ \E r \in Runs : AuditUpdateFailed(r)
  \/ \E r \in Runs : Finally(r)
  \/ EditMaster

Spec == Init /\ [][Next]_vars

\* One invocation while time passes.
Clocked == "w1"

ClockNext ==
  \/ Start(Clocked)
  \/ Validate(Clocked)
  \/ AllocRunId(Clocked)
  \/ FetchSteps(Clocked)
  \/ AuditInsertStarted(Clocked)
  \/ ExecStep(Clocked)
  \/ AuditUpdateSuccess(Clocked)
  \/ AuditUpdateFailed(Clocked)
  \/ Finally(Clocked)
  \/ Tick

ClockSpec == Init /\ [][ClockNext]_vars


(***************************************************************************)
(* Vocabulary of the properties                                            *)
(***************************************************************************)
Done(r) == pc[r] = "done"

ReturnedSuccess(r) == Done(r) /\ result[r].kind = "return"

RaisedError(r) == Done(r) /\ result[r].kind = "raise"

\* The positions of a run's history holding an event op of step n.
At(r, op, n) == {k \in DOMAIN trace[r] : trace[r][k].op = op /\ trace[r][k].step = n}

\* The step's _execute_sql_block call raised.
SqlFailed(r, n) == \E k \in At(r, "block", n) : ~trace[r][k].ok

\* The step's audit row was updated to SUCCESS.
StepSucceeded(r, n) ==
  \E k \in At(r, "update", n) : trace[r][k].ok /\ trace[r][k].n = Val("SUCCESS")

\* The statuses of the audit rows of step n of run id rid.
RowStatus(rid, n) == {row.load_status : row \in RowsOf(rid, n)}

\* The exception is run_etl_job's job-level failure and names the step.
NamesStep(e, step) ==
  /\ e.type = "RuntimeError"
  /\ Len(e.msg) = 6
  /\ e.msg[1] = "JOB FAILED"
  /\ e.msg[4] = step.step_number
  /\ e.msg[5] = step.step_desc

\* The count query of the run returned zero.
CountedZero(r) ==
  \E k \in At(r, "count", 0) : trace[r][k].ok /\ trace[r][k].n = Val(0)

(***************************************************************************)
(* C1                                                                      *)
(***************************************************************************)

\* C1: when a run has ended in which steps 1..k-1 succeeded and the SQL of
\* step k failed, the audit table holds exactly one row for each of the steps
\* 1..k of its run id, with statuses SUCCESS,...,SUCCESS,FAILED, none for a
\* later step, and the error raised names step k's number and description.
C1_FailedStepAudit ==
  \A r \in Runs : \A k \in DOMAIN steps[r] :
    ( /\ Done(r)
      /\ SqlFailed(r, steps[r][k].step_number)
      /\ \A j \in 1..(k - 1) : StepSucceeded(r, steps[r][j].step_number) )
    => /\ \A j \in 1..(k - 1) :
            /\ RowCount(run_id[r], steps[r][j].step_number) = 1
            /\ RowStatus(run_id[r], steps[r][j].step_number) = {"SUCCESS"}
       /\ RowCount(run_id[r], steps[r][k].step_number) = 1
       /\ RowStatus(run_id[r], steps[r][k].step_number) = {"FAILED"}
       /\ \A j \in (k + 1)..Len(steps[r]) :
            RowCount(run_id[r], steps[r][j].step_number) = 0
       /\ result[r].kind = "raise"
       /\ NamesStep(result[r].exc, steps[r][k])

(***************************************************************************)
(* C2                                                                      *)
(***************************************************************************)

\* C2: a run that returned the success string has exactly one audit row per
\* step it fetched, each SUCCESS, no other row under its run id, and the
\* run id in the returned string is the run id of those rows.
C2_SuccessAudit ==
  \A r \in Runs :
    ReturnedSuccess(r) =>
      LET rid == result[r].value.run_id IN
      /\ rid = run_id[r]
      /\ rid # 0
      /\ \A j \in DOMAIN steps[r] :
           /\ RowCount(rid, steps[r][j].step_number) = 1
           /\ RowStatus(rid, steps[r][j].step_number) = {"SUCCESS"}
      /\ \A row \in DOMAIN audit :
           row.run_id = rid =>
             \E j \in DOMAIN steps[r] : row.step_number = steps[r][j].step_number

\* C2 witness: a run returned success after processing a job of two steps.
C2_Witness ==
  \E r \in Runs : ReturnedSuccess(r) /\ Len(steps[r]) = 2

(***************************************************************************)
(* C3                                                                      *)
(***************************************************************************)

\* C3: a run whose count query found zero steps makes no further database
\* call (the sequence is not advanced for it, no audit row is inserted or
\* updated), holds no run id, and ends raising the "No steps found" error.
C3_UnknownJob ==
  \A r \in Runs :
    CountedZero(r) =>
      /\ \A k \in DOMAIN trace[r] : trace[r][k].op \in {"clock", "count"}
      /\ run_id[r] = 0
      /\ \A row \in DOMAIN audit : row.run_id # 0
      /\ pc[r] \in {"finally", "done"}
      /\ Done(r) => result[r] = Raised(NoStepsFound(job_code[r]))

\* C3 witness: a run on a job code without steps has ended, while another
\* run has allocated a run id.
C3_Witness ==
  \E r, o \in Runs : Done(r) /\ CountedZero(r) /\ run_id[o] # 0 /\ seq = 1

(***************************************************************************)
(* C4                                                                      *)
(***************************************************************************)

\* C4: the run ids of any two invocations differ, also when one of them has
\* already failed.
C4_DistinctRunIds ==
  \A r, o \in Runs :
    (r # o /\ run_id[r] # 0 /\ run_id[o] # 0) => run_id[r] # run_id[o]

\* C4 witness: a run that failed holds a run id and another run has
\* allocated one after it.
C4_Witness ==
  \E r, o \in Runs :
    /\ RaisedError(r) /\ run_id[r] # 0
    /\ run_id[o] > run_id[r]


(***************************************************************************)
(* C5                                                                      *)
(***************************************************************************)

\* C5: whenever a run is about to submit a step's SQL, the STARTED row of
\* (run id, step) is in the audit table; every statement a run submitted
\* comes after the insert of its step's row and before any update of that
\* row to a terminal status.
C5_StartedBeforeSql ==
  \A r \in Runs :
    /\ pc[r] = "exec" =>
         /\ RowCount(run_id[r], steps[r][idx[r]].step_number) = 1
         /\ RowStatus(run_id[r], steps[r][idx[r]].step_number) = {"STARTED"}
    /\ \A k \in DOMAIN trace[r] :
         trace[r][k].op = "stmt" =>
           /\ RowCount(run_id[r], trace[r][k].step) >= 1
           /\ \E i \in At(r, "insert", trace[r][k].step) : i < k /\ trace[r][i].ok
           /\ \A i \in At(r, "update", trace[r][k].step) : i > k

\* C5 witness: a step's SQL has been submitted and has returned, and its
\* audit row is still STARTED.
C5_Witness ==
  \E r \in Runs :
    /\ pc[r] = "update_success"
    /\ At(r, "stmt", steps[r][idx[r]].step_number) # {}
    /\ RowStatus(run_id[r], steps[r][idx[r]].step_number) = {"STARTED"}

(***************************************************************************)
(* C6                                                                      *)
(***************************************************************************)

\* The run has entered, or is about to enter, the try block of step n.
Begun(r, n) ==
  \/ At(r, "try", n) # {}
  \/ (pc[r] = "exec" /\ steps[r][idx[r]].step_number = n)

\* C6: no (run id, step number) pair has more than one audit row, and every
\* step whose execution has begun has exactly one.
C6_OneRowPerStep ==
  /\ \A row \in DOMAIN audit : RowCount(row.run_id, row.step_number) = 1
  /\ \A r \in Runs : \A j \in DOMAIN steps[r] :
       Begun(r, steps[r][j].step_number) =>
         RowCount(run_id[r], steps[r][j].step_number) = 1

\* C6 witness: two runs of the same job code are both in the middle of their
\* second step.
C6_Witness ==
  \E r, o \in Runs :
    /\ r # o /\ job_code[r] = job_code[o]
    /\ pc[r] = "update_success" /\ pc[o] = "update_success"
    /\ idx[r] = 2 /\ idx[o] = 2

(***************************************************************************)
(* C7                                                                      *)
(***************************************************************************)

\* C7: a run that acquired a session and has ended has had close() called on
\* its cursor and on its connection, whatever it returned or raised; while
\* its session is open the run is at a step it can take, the last of which
\* is the finally clause.
C7_SessionClosed ==
  \A r \in Runs :
    /\ (Done(r) /\ conn[r] # "none") => (cur[r] = "closed" /\ conn[r] = "closed")
    /\ conn[r] = "open" =>
         pc[r] \in {"validate", "alloc", "fetch", "insert", "exec",
                    "update_success", "update_failed", "finally"}

\* C7 witness: one run ended with a success and another with an error raised
\* by a failing audit write, both with their session closed.
C7_Witness ==
  \E r, o \in Runs :
    /\ ReturnedSuccess(r) /\ conn[r] = "closed" /\ cur[r] = "closed"
    /\ RaisedError(o) /\ conn[o] = "closed" /\ cur[o] = "closed"
    /\ result[o].exc = QueryError("audit insert")

(***************************************************************************)
(* C8                                                                      *)
(***************************************************************************)

\* The text of the first error of step n of the run.
OriginalError(r, n) ==
  LET failed == {k \in DOMAIN trace[r] :
                   /\ trace[r][k].step = n
                   /\ trace[r][k].op \in {"insert", "block", "update"}
                   /\ ~trace[r][k].ok}
      first  == CHOOSE k \in failed : \A i \in failed : k <= i
  IN  CASE trace[r][first].op = "insert" -> StrOf(QueryError("audit insert"))
        [] trace[r][first].op = "block"  -> StrOf(trace[r][first].n.v.v)
        [] OTHER                         -> StrOf(QueryError("audit update"))

\* C8: an error raised after the run id was allocated and while a step was
\* being processed carries the job code, the run id, the step's number and
\* description, and the text of the original error.
C8_ErrorContext ==
  \A r \in Runs :
    (RaisedError(r) /\ run_id[r] # 0 /\ idx[r] >= 1) =>
      /\ NamesStep(result[r].exc, steps[r][idx[r]])
      /\ result[r].exc.msg[2] = job_code[r]
      /\ result[r].exc.msg[3] = run_id[r]
      /\ result[r].exc.msg[6] = OriginalError(r, steps[r][idx[r]].step_number)

(***************************************************************************)
(* C9                                                                      *)
(***************************************************************************)

\* A database call of a step failed.
StepFailure(e) == e.op \in {"insert", "stmt", "block", "update"} /\ ~e.ok

\* C9: after a failure in a step the run submits no statement and starts no
\* step, it is on its way out, and it ends raising.
C9_FailureIsTerminal ==
  \A r \in Runs : \A k \in DOMAIN trace[r] :
    StepFailure(trace[r][k]) =>
      /\ \A i \in DOMAIN trace[r] :
           i > k => trace[r][i].op \notin {"stmt", "try", "insert"}
      /\ pc[r] \in {"update_failed", "finally", "done"}
      /\ Done(r) => result[r].kind = "raise"

\* C9 witness: a run of a two-step job has ended after the SQL of its first
\* step failed.
C9_Witness ==
  \E r \in Runs :
    /\ RaisedError(r)
    /\ Len(steps[r]) = 2
    /\ SqlFailed(r, steps[r][1].step_number)

(***************************************************************************)
(* C10                                                                     *)
(***************************************************************************)

\* C10: when a statement of a block fails, it is the last statement of that
\* step to be submitted, every statement before it succeeded, and the error
\* that leaves _execute_sql_block is that statement's error.
C10_FirstFailingStatement ==
  \A r \in Runs : \A k \in DOMAIN trace[r] :
    (trace[r][k].op = "stmt" /\ ~trace[r][k].ok) =>
      /\ \A i \in At(r, "stmt", trace[r][k].step) :
           /\ i <= k
           /\ i < k => (trace[r][i].ok /\ trace[r][i].stmt < trace[r][k].stmt)
      /\ \E b \in At(r, "block", trace[r][k].step) :
           /\ b > k
           /\ trace[r][b].n.v = Val(SqlError(trace[r][k].stmt, trace[r][k].text))

\* C10 witness: on the execute_string path, statement 2 of a block of three
\* statements failed and statement 3 was not submitted.
C10_Witness ==
  \E r \in Runs : \E k \in DOMAIN trace[r] :
    /\ trace[r][k].op = "stmt" /\ ~trace[r][k].ok
    /\ trace[r][k].stmt = 2 /\ trace[r][k].path = "execute_string"
    /\ Len(Statements(SqlText(steps[r][idx[r]], batch_ts[r]))) = 3
    /\ \A i \in At(r, "stmt", trace[r][k].step) : trace[r][i].stmt # 3


(***************************************************************************)
(* C11                                                                     *)
(***************************************************************************)

\* The positions of the connector calls of step n made on the given path.
Calls(r, n, path) == {k \in At(r, "call", n) : trace[r][k].path = path}

\* C11: every _execute_sql_block call that submits anything starts with the
\* native cur.execute; conn.execute_string is called only after the native
\* call raised the capability mismatch, having submitted no statement; a
\* native call that raised a SQL error is followed by no execute_string call
\* and its error is the one that leaves _execute_sql_block.
C11_NativeFirst ==
  \A r \in Runs : \A k \in DOMAIN trace[r] :
    LET e == trace[r][k] IN
    /\ (e.op = "block") =>
         \E i \in Calls(r, e.step, "native") :
           i < k /\ \A c \in At(r, "call", e.step) : i <= c
    /\ (e.op = "call" /\ e.path = "execute_string") =>
         /\ \E i \in Calls(r, e.step, "native") :
              i < k /\ trace[r][i].n = Val(CapabilityMismatch)
         /\ \A i \in At(r, "stmt", e.step) : trace[r][i].path = "execute_string"
    /\ (e.op = "call" /\ e.path = "native" /\ e.n # NULL /\ e.n # Val(CapabilityMismatch)) =>
         /\ Calls(r, e.step, "execute_string") = {}
         /\ \E b \in At(r, "block", e.step) : b > k /\ trace[r][b].n = Val(e.n)

\* C11 witness: a native call raised a SQL error, no execute_string call
\* followed it, and the run is in its except block.
C11_Witness ==
  \E r \in Runs : \E k \in DOMAIN trace[r] :
    /\ trace[r][k].op = "call" /\ trace[r][k].path = "native"
    /\ trace[r][k].n # NULL /\ trace[r][k].n # Val(CapabilityMismatch)
    /\ Calls(r, trace[r][k].step, "execute_string") = {}
    /\ pc[r] = "update_failed"


(***************************************************************************)
(* C12                                                                     *)
(***************************************************************************)

\* etl_logic is null, empty or whitespace-only.
BlankLogic(step) == step.etl_logic = NULL \/ Strip(step.etl_logic.v) = << >>

\* Blank SQL texts.
BlankTexts == {<< >>, << WS >>, << WS, WS >>}

\* The run has entered the try block of its j-th step and has left the step.
StepOver(r, j) ==
  /\ At(r, "try", steps[r][j].step_number) # {}
  /\ (j < idx[r] \/ pc[r] \in {"finally", "done"})

\* C12: _execute_sql_block on a blank text calls nothing, submits nothing and
\* raises nothing; for a step with blank etl_logic no connector call is made
\* and no statement submitted, and once the run has left the step its audit
\* row is SUCCESS with a null error_message and the step has not made the
\* run raise.
C12_BlankStepNoOp ==
  /\ \A t \in BlankTexts : \A supported \in BOOLEAN : \A f \in 0..1 :
       /\ ExecuteSqlBlock(t, supported, f, f).log = << >>
       /\ ExecuteSqlBlock(t, supported, f, f).raised = NULL
  /\ \A r \in Runs : \A j \in DOMAIN steps[r] :
       BlankLogic(steps[r][j]) =>
         /\ At(r, "call", steps[r][j].step_number) = {}
         /\ At(r, "stmt", steps[r][j].step_number) = {}
         /\ StepOver(r, j) =>
              /\ RowStatus(run_id[r], steps[r][j].step_number) = {"SUCCESS"}
              /\ \A row \in RowsOf(run_id[r], steps[r][j].step_number) :
                   row.error_message = NULL
              /\ (Done(r) /\ j = idx[r]) => result[r].kind = "return"


(***************************************************************************)
(* C13                                                                     *)
(***************************************************************************)

\* The audit rows under run ids other than rid, with their copies.
RowsOfOthers(tbl, rid) ==
  [row \in {x \in DOMAIN tbl : x.run_id # rid} |-> tbl[row]]

\* C13: a step taken by one run leaves every audit row of every other run id
\* as it is: none is created, changed or removed.
C13_AuditIsolation ==
  [][\A r \in Runs :
       trace'[r] # trace[r] =>
         RowsOfOthers(audit', run_id'[r]) = RowsOfOthers(audit, run_id'[r])]_vars

\* C13 witness: two runs of the same job code have a row for the same step
\* number, one already updated to SUCCESS and the other still STARTED.
C13_Witness ==
  \E r, o \in Runs : \E j \in DOMAIN steps[r] :
    /\ r # o /\ job_code[r] = job_code[o] /\ run_id[o] # 0
    /\ RowStatus(run_id[r], steps[r][j].step_number) = {"SUCCESS"}
    /\ RowStatus(run_id[o], steps[r][j].step_number) = {"STARTED"}


(***************************************************************************)
(* C14                                                                     *)
(***************************************************************************)

\* The positions of the audit inserts of a run, whatever their step.
Inserts(r) == {k \in DOMAIN trace[r] : trace[r][k].op = "insert"}

\* C14: the audit inserts of a run come in strictly ascending step number
\* and skip no step of the job; each comes after the row of every earlier
\* step was updated to SUCCESS.
C14_AscendingSteps ==
  \A r \in Runs : \A k \in Inserts(r) :
    /\ \A i \in Inserts(r) :
         i < k =>
           /\ trace[r][i].step < trace[r][k].step
           /\ \E u \in At(r, "update", trace[r][i].step) :
                u < k /\ trace[r][u].ok /\ trace[r][u].n = Val("SUCCESS")
    /\ \A j \in DOMAIN steps[r] :
         steps[r][j].step_number < trace[r][k].step =>
           \E i \in At(r, "insert", steps[r][j].step_number) : i < k

\* C14 witness: a run of the job whose rows are stored out of order has
\* inserted the row of its second step.
C14_Witness ==
  \E r \in Runs :
    /\ job_code[r] = JOB_02
    /\ At(r, "insert", 10) # {} /\ At(r, "insert", 20) # {}


(***************************************************************************)
(* C15                                                                     *)
(***************************************************************************)

\* The readings of the clock the run made.
ClockReads(r) == {k \in DOMAIN trace[r] : trace[r][k].op = "clock"}

\* A quoted timestamp literal among the tokens of a statement.
IsLiteral(tok) == Len(tok) = 5 /\ tok[1] = "'"

\* The ETL_LOGIC of the step numbered n of the run's job.
LogicOf(r, n) ==
  LET j == CHOOSE j \in DOMAIN steps[r] : steps[r][j].step_number = n
  IN  steps[r][j].etl_logic.v

\* C15: a run reads the clock once; every statement it submits is the
\* statement of the step's SQL with every $BATCH_TS replaced by the quoted
\* literal of that reading, and the success result reports that reading.
C15_OneBatchTs ==
  \A r \in Runs :
    /\ Cardinality(ClockReads(r)) <= 1
    /\ \A c \in ClockReads(r) :
         LET ts == trace[r][c].n.v IN
         /\ \A k \in DOMAIN trace[r] :
              trace[r][k].op = "stmt" =>
                LET text == trace[r][k].text IN
                /\ \A i \in DOMAIN text :
                     /\ text[i] # BATCH_TS_TOKEN
                     /\ IsLiteral(text[i]) => text[i] = QuotedLiteral(ts)
                /\ text = Statements(Replace(LogicOf(r, trace[r][k].step), BATCH_TS_TOKEN,
                                             QuotedLiteral(ts)))[trace[r][k].stmt]
         /\ ReturnedSuccess(r) => result[r].value.batch_ts = IsoFormat(ts, "T")
    /\ (ReturnedSuccess(r) \/ trace[r] # << >>) => ClockReads(r) # {}

\* C15 witness: a run returned success some time after it read the clock,
\* having submitted two statements that hold the literal.
C15_Witness ==
  \E r \in Runs : \E c \in ClockReads(r) :
    /\ ReturnedSuccess(r)
    /\ trace[r][c].n.v # now
    /\ \E k, m \in DOMAIN trace[r] :
         /\ k # m
         /\ trace[r][k].op = "stmt" /\ trace[r][m].op = "stmt"
         /\ trace[r][k].ok /\ trace[r][m].ok
         /\ \E i \in DOMAIN trace[r][k].text : IsLiteral(trace[r][k].text[i])
         /\ \E i \in DOMAIN trace[r][m].text : IsLiteral(trace[r][m].text[i])


(***************************************************************************)
(* C16                                                                     *)
(***************************************************************************)

\* The step's update of its audit row to FAILED raised.
FailedUpdateRaised(r, n) ==
  \E k \in At(r, "update", n) : ~trace[r][k].ok /\ trace[r][k].n = Val("FAILED")

\* The text of the error the step's _execute_sql_block call raised.
SqlErrorText(r, n) ==
  LET k == CHOOSE k \in At(r, "block", n) : ~trace[r][k].ok
  IN  StrOf(trace[r][k].n.v.v)

\* The exception is run_etl_job's job-level failure wrapping the text (the only
\* error of the program whose message embeds another error's text).
Carries(e, text) ==
  /\ e.type = "RuntimeError"
  /\ Len(e.msg) = 6
  /\ e.msg[1] = "JOB FAILED"
  /\ e.msg[6] = text

\* C16: when the SQL of a step failed and the update of its audit row to
\* FAILED raised as well, the error run_etl_job raises still carries the text
\* of the step's SQL error.
C16_StepErrorKept ==
  \A r \in Runs : \A j \in DOMAIN steps[r] :
    LET n == steps[r][j].step_number IN
    (RaisedError(r) /\ SqlFailed(r, n) /\ FailedUpdateRaised(r, n))
      => Carries(result[r].exc, SqlErrorText(r, n))

(***************************************************************************)
(* C17                                                                     *)
(***************************************************************************)

\* C17: a step whose SQL did not fail (it ran, or the step has none) has no
\* audit row in FAILED and is not the step of a job failure the run raises,
\* also when its SUCCESS update raised.
C17_FailedOnlyIfSqlFailed ==
  \A r \in Runs : \A j \in DOMAIN steps[r] :
    LET n == steps[r][j].step_number IN
    (run_id[r] # 0 /\ ~SqlFailed(r, n))
      => /\ "FAILED" \notin RowStatus(run_id[r], n)
         /\ ~(RaisedError(r) /\ NamesStep(result[r].exc, steps[r][j]))

(***************************************************************************)
(* C18                                                                     *)
(***************************************************************************)

\* The audit rows of a run id.
RowsOfRun(rid) == {row \in DOMAIN audit : row.run_id = rid}

\* C18: when a run has ended, every audit row of its run id is SUCCESS or
\* FAILED and has a run_end_date; none is left STARTED.
C18_NoStartedLeft ==
  \A r \in Runs :
    (Done(r) /\ run_id[r] # 0)
      => \A row \in RowsOfRun(run_id[r]) :
           /\ row.load_status \in {"SUCCESS", "FAILED"}
           /\ row.run_end_date # NULL


(***************************************************************************)
(* C19                                                                     *)
(***************************************************************************)

\* The statements of step n the run submitted, on either path.
StmtsOf(r, n) == At(r, "stmt", n)

\* C19: a run calls _execute_sql_block at most once for a step and makes at
\* most one call on each path; when conn.execute_string was called, the native
\* call submitted no statement; no statement of a step is submitted twice.
C19_ExecutedAtMostOnce ==
  \A r \in Runs : \A j \in DOMAIN steps[r] :
    LET n == steps[r][j].step_number IN
    /\ Cardinality(At(r, "try", n)) <= 1
    /\ Cardinality(Calls(r, n, "native")) <= 1
    /\ Cardinality(Calls(r, n, "execute_string")) <= 1
    /\ Calls(r, n, "execute_string") # {} =>
         \A k \in StmtsOf(r, n) : trace[r][k].path # "native"
    /\ \A k, m \in StmtsOf(r, n) : trace[r][k].stmt = trace[r][m].stmt => k = m

\* C19 witness: the native call of a step raised the capability mismatch and
\* the fallback then submitted all three statements of the step, once each.
C19_Witness ==
  \E r \in Runs : \E j \in DOMAIN steps[r] :
    LET n == steps[r][j].step_number IN
    /\ \E k \in Calls(r, n, "native") : trace[r][k].n = Val(CapabilityMismatch)
    /\ \E k \in Calls(r, n, "execute_string") : trace[r][k].ok
    /\ Cardinality(StmtsOf(r, n)) = 3
    /\ StepSucceeded(r, n)


(***************************************************************************)
(* C20                                                                     *)
(***************************************************************************)

\* C20: a run that returned a success result has processed at least one
\* step, and the audit table holds at least one row of its run id, also when
\* the master table was edited between its count query and its step query.
C20_SuccessHasAudit ==
  \A r \in Runs :
    ReturnedSuccess(r) =>
      /\ Inserts(r) # {}
      /\ RowsOfRun(run_id[r]) # {}

====
